---- MODULE Spec2Model ----
(***************************************************************************)
(* PhotoPrint A4 (src/src/App.tsx, src/src/types.ts).                      *)
(*                                                                         *)
(* State: the React state of App -- the image list, the print settings    *)
(* and the two export flags -- and the position of each running export     *)
(* (generatePDF, saveToPNG) between its awaits.                            *)
(* The page layout is derived state: App evaluates calculateLayout() on    *)
(* every render (App.tsx:195), so here it is a state function of the       *)
(* variables.  So is the drawing of an export: a function of the item, the *)
(* loaded image element and the settings it was made of.                   *)
(*                                                                         *)
(* Lengths.  The code computes in centimetres with IEEE doubles.  The      *)
(* model uses exact integers in units of 1/120000 cm, so that every length *)
(* the model can produce is an integer: a centimetre is 120000 units, an   *)
(* inch (2.54 cm) is 304800, a pixel at 300 DPI (2.54/300 cm) is 1016, the *)
(* 0.001 cm tolerance is 120.  Sizes are entered in quarters of their      *)
(* unit; a quarter centimetre, a quarter inch and a quarter pixel are all  *)
(* even numbers of units, and so are the margins, the spacings and the     *)
(* page width, so the halving of the centering pass is exact.              *)
(*                                                                         *)
(* Pixel arithmetic of the exports divides, and is done in exact           *)
(* fractions.                                                              *)
(***************************************************************************)
EXTENDS Integers, Sequences, FiniteSets

VARIABLES images, settings, isGenerating, isSavingImages, pdfRun, pngRun

exportVars == <<isGenerating, isSavingImages, pdfRun, pngRun>>
vars == <<images, settings, isGenerating, isSavingImages, pdfRun, pngRun>>

(* ------------------------------ bounds --------------------------------- *)

\* the list never holds more than this many copies in total: a file is added
\* and a copy-count is raised only below it
MaxItems == 3

(* ------------------------------ lengths -------------------------------- *)

Cm(n) == n * 120000
\* tenths of a centimetre (the margin and spacing inputs have step 0.1)
Mm(n) == n * 12000

\* types.ts:19-20
A4_WIDTH_CM == Cm(21)
A4_HEIGHT_CM == Mm(297)

\* the 0.001 of App.tsx:153 and :160
EPSILON == Cm(1) \div 1000

\* types.ts:9-17, widthCm and heightCm
STANDARD_SIZES ==
  << [id |-> "10x15", widthCm |-> Cm(10), heightCm |-> Cm(15)],
     [id |-> "13x18", widthCm |-> Cm(13), heightCm |-> Cm(18)],
     [id |-> "15x21", widthCm |-> Cm(15), heightCm |-> Cm(21)],
     [id |-> "20x25", widthCm |-> Cm(20), heightCm |-> Cm(25)],
     [id |-> "10x10", widthCm |-> Cm(10), heightCm |-> Cm(10)],
     [id |-> "5x7",   widthCm |-> Cm(5),  heightCm |-> Cm(7)],
     [id |-> "3x4",   widthCm |-> Cm(3),  heightCm |-> Cm(4)] >>

(* ------------------------------ inputs --------------------------------- *)

\* decoded pixel sizes a file can have: landscape, portrait
DecodedSizes == { <<4000, 3000>>, <<3000, 4000>> }

SizeIds == { STANDARD_SIZES[i].id : i \in DOMAIN STANDARD_SIZES } \cup {"custom"}
CustomUnits == {"cm", "inch", "px"}
Orientations == {"auto", "portrait", "landscape"}
\* values typed into the custom width and height fields, in quarters: 10, 15
CustomVals == {40, 60}
\* values typed into the margin field: 0.3 cm, 2.5 cm
MarginVals == { Mm(3), Mm(25) }
\* values typed into the spacing field: 0 cm, 0.2 cm
SpacingVals == { 0, Mm(2) }

(* ------------------------------ helpers -------------------------------- *)

Max(a, b) == IF a > b THEN a ELSE b

\* Math.min(...xs), Math.max(...xs) over a non-empty sequence
SeqMin(xs) == CHOOSE m \in { xs[i] : i \in DOMAIN xs } :
                 \A i \in DOMAIN xs : m <= xs[i]
SeqMax(xs) == CHOOSE m \in { xs[i] : i \in DOMAIN xs } :
                 \A i \in DOMAIN xs : m >= xs[i]

RECURSIVE Flatten(_)
Flatten(ss) == IF ss = << >> THEN << >> ELSE Head(ss) \o Flatten(Tail(ss))

(* --------------------------- getTargetSize ----------------------------- *)

\* customWidth and customHeight are held in quarters of their unit (40 is 10,
\* 41 is 10.25), so a quarter centimetre is 30000, a quarter inch 76200 and a
\* quarter pixel 254.
getTargetSize(s) ==
  IF s.sizeId = "custom"
  THEN CASE s.customUnit = "inch" ->
              [width |-> s.customWidth * 76200, height |-> s.customHeight * 76200]
         [] s.customUnit = "px" ->
              [width |-> s.customWidth * 254, height |-> s.customHeight * 254]
         [] OTHER ->
              [width |-> s.customWidth * 30000, height |-> s.customHeight * 30000]
  ELSE LET found == { i \in DOMAIN STANDARD_SIZES : STANDARD_SIZES[i].id = s.sizeId }
       IN IF found = {}
          THEN [width |-> Cm(10), height |-> Cm(15)]
          ELSE LET size == STANDARD_SIZES[CHOOSE i \in found : \A j \in found : i <= j]
               IN [width |-> size.widthCm, height |-> size.heightCm]

(* --------------------------- calculateLayout --------------------------- *)

\* The image object at position k of the list.  The code tells image objects
\* apart by reference and finds them by their random id; ids are unique, so
\* the model names an object by its position, ref.
imageObject(imgs, k) ==
  [ ref |-> k, copies |-> imgs[k].copies,
    width |-> imgs[k].width, height |-> imgs[k].height ]

\* images.forEach(img => for (i < img.copies) allItemsToPrint.push(img))
allItemsToPrint(imgs) ==
  Flatten([ k \in DOMAIN imgs |-> [ c \in 1..imgs[k].copies |-> imageObject(imgs, k) ] ])

\* faulty variant of orientSlot: the 'portrait' branch repeats the test of
\* the 'landscape' branch
orientSlotPortraitTestCopied(img, s) ==
  LET t == getTargetSize(s)
      same == [w |-> t.width, h |-> t.height, isRotated |-> FALSE]
      swap == [w |-> t.height, h |-> t.width, isRotated |-> TRUE]
  IN CASE s.orientation = "auto" ->
            LET imgIsLandscape == img.width > img.height
                targetIsLandscape == t.width > t.height
            IN IF imgIsLandscape # targetIsLandscape THEN swap ELSE same
       [] s.orientation = "landscape" ->
            IF t.width < t.height THEN swap ELSE same
       [] s.orientation = "portrait" ->
            IF t.width < t.height THEN swap ELSE same
       [] OTHER -> same

\* faulty variant of orientSlot: 'auto' takes an image as landscape when
\* width >= height
orientSlotAutoGeq(img, s) ==
  LET t == getTargetSize(s)
      same == [w |-> t.width, h |-> t.height, isRotated |-> FALSE]
      swap == [w |-> t.height, h |-> t.width, isRotated |-> TRUE]
  IN CASE s.orientation = "auto" ->
            LET imgIsLandscape == img.width >= img.height
                targetIsLandscape == t.width > t.height
            IN IF imgIsLandscape # targetIsLandscape THEN swap ELSE same
       [] s.orientation = "landscape" ->
            IF t.width < t.height THEN swap ELSE same
       [] s.orientation = "portrait" ->
            IF t.width > t.height THEN swap ELSE same
       [] OTHER -> same

\* the effective slot of one copy: w, h, isRotated
orientSlot(img, s) ==
  LET t == getTargetSize(s)
      same == [w |-> t.width, h |-> t.height, isRotated |-> FALSE]
      swap == [w |-> t.height, h |-> t.width, isRotated |-> TRUE]
  IN CASE s.orientation = "auto" ->
            LET imgIsLandscape == img.width > img.height
                targetIsLandscape == t.width > t.height
            IN IF imgIsLandscape # targetIsLandscape THEN swap ELSE same
       [] s.orientation = "landscape" ->
            IF t.width < t.height THEN swap ELSE same
       [] s.orientation = "portrait" ->
            IF t.width > t.height THEN swap ELSE same
       [] OTHER -> same

\* the state of the packing loop before the first item
packStart(s) ==
  [ pages |-> << >>, currentImages |-> << >>,
    currentX |-> s.margin, currentY |-> s.margin, rowHeight |-> 0 ]

\* faulty variant of wrapRow: the row ends at the page edge, not at the margin
wrapRowAtPageEdge(st, w, s) ==
  IF st.currentX + w > A4_WIDTH_CM + EPSILON
  THEN [st EXCEPT !.currentX = s.margin,
                  !.currentY = st.currentY + st.rowHeight + s.spacing,
                  !.rowHeight = 0]
  ELSE st

\* faulty variant of wrapRow: the wrap does not move the cursor down
wrapRowKeepsY(st, w, s) ==
  IF st.currentX + w > A4_WIDTH_CM - s.margin + EPSILON
  THEN [st EXCEPT !.currentX = s.margin,
                  !.rowHeight = 0]
  ELSE st

\* the row check: wrap to the next row
wrapRow(st, w, s) ==
  IF st.currentX + w > A4_WIDTH_CM - s.margin + EPSILON
  THEN [st EXCEPT !.currentX = s.margin,
                  !.currentY = st.currentY + st.rowHeight + s.spacing,
                  !.rowHeight = 0]
  ELSE st

\* faulty variant of breakPage: the full page is not pushed before it is
\* cleared
breakPageNoPush(st, h, s) ==
  IF st.currentY + h > A4_HEIGHT_CM - s.margin + EPSILON
  THEN [st EXCEPT !.currentImages = << >>,
                  !.currentX = s.margin,
                  !.currentY = s.margin,
                  !.rowHeight = 0]
  ELSE st

\* the page check: seal the page and start the next
breakPage(st, h, s) ==
  IF st.currentY + h > A4_HEIGHT_CM - s.margin + EPSILON
  THEN [st EXCEPT !.pages = Append(st.pages, st.currentImages),
                  !.currentImages = << >>,
                  !.currentX = s.margin,
                  !.currentY = s.margin,
                  !.rowHeight = 0]
  ELSE st

\* faulty variant of pushItem: rowHeight is the height of the last item, not
\* the maximum of the row
pushItemLastHeight(st, img, o, s) ==
  [st EXCEPT !.currentImages =
                Append(st.currentImages,
                       [img |-> img, x |-> st.currentX, y |-> st.currentY,
                        w |-> o.w, h |-> o.h, isRotated |-> o.isRotated]),
             !.currentX = st.currentX + o.w + s.spacing,
             !.rowHeight = o.h]

\* faulty variant of pushItem: the item is put at the front of the page
\* (unshift for push)
pushItemFront(st, img, o, s) ==
  [st EXCEPT !.currentImages =
                << [img |-> img, x |-> st.currentX, y |-> st.currentY,
                    w |-> o.w, h |-> o.h, isRotated |-> o.isRotated] >>
                \o st.currentImages,
             !.currentX = st.currentX + o.w + s.spacing,
             !.rowHeight = Max(st.rowHeight, o.h)]

\* push the item at the cursor and advance the cursor
pushItem(st, img, o, s) ==
  [st EXCEPT !.currentImages =
                Append(st.currentImages,
                       [img |-> img, x |-> st.currentX, y |-> st.currentY,
                        w |-> o.w, h |-> o.h, isRotated |-> o.isRotated]),
             !.currentX = st.currentX + o.w + s.spacing,
             !.rowHeight = Max(st.rowHeight, o.h)]

\* one iteration of allItemsToPrint.forEach
placeItem(st, img, s) ==
  LET o == orientSlot(img, s)
  IN pushItem(breakPage(wrapRow(st, o.w, s), o.h, s), img, o, s)

RECURSIVE packItems(_, _, _)
packItems(st, items, s) ==
  IF items = << >> THEN st
  ELSE packItems(placeItem(st, Head(items), s), Tail(items), s)

\* if (currentImages.length > 0) pages.push(...)
sealLast(st) ==
  IF Len(st.currentImages) > 0 THEN Append(st.pages, st.currentImages) ELSE st.pages

\* the pages before the centering pass
packedPages(imgs, s) == sealLast(packItems(packStart(s), allItemsToPrint(imgs), s))

\* faulty variant of centerPage: the offset leaves out minX
centerPageNoMinX(page) ==
  IF Len(page) = 0 THEN page
  ELSE LET minX == SeqMin([ i \in DOMAIN page |-> page[i].x ])
           maxX == SeqMax([ i \in DOMAIN page |-> page[i].x + page[i].w ])
           contentWidth == maxX - minX
           offsetX == (A4_WIDTH_CM - contentWidth) \div 2
       IN [ i \in DOMAIN page |-> [page[i] EXCEPT !.x = page[i].x + offsetX] ]

\* the centering pass on one page
centerPage(page) ==
  IF Len(page) = 0 THEN page
  ELSE LET minX == SeqMin([ i \in DOMAIN page |-> page[i].x ])
           maxX == SeqMax([ i \in DOMAIN page |-> page[i].x + page[i].w ])
           contentWidth == maxX - minX
           offsetX == (A4_WIDTH_CM - contentWidth) \div 2 - minX
       IN [ i \in DOMAIN page |-> [page[i] EXCEPT !.x = page[i].x + offsetX] ]

calculateLayout(imgs, s) ==
  LET packed == packedPages(imgs, s)
  IN [ p \in DOMAIN packed |-> centerPage(packed[p]) ]

\* const pages = calculateLayout()
pages == calculateLayout(images, settings)

(* --------------------------- exact fractions --------------------------- *)

\* The slot rasterizer divides, so its doubles are modelled by exact
\* fractions [n, d] in lowest terms with d > 0.

RECURSIVE Gcd(_, _)
Gcd(a, b) == IF b = 0 THEN a ELSE Gcd(b, a % b)

Abs(a) == IF a < 0 THEN -a ELSE a

Q(n, d) == LET g == Gcd(Abs(n), d) IN [n |-> n \div g, d |-> d \div g]
QInt(n) == [n |-> n, d |-> 1]

QMul(a, b) ==
  LET g1 == Gcd(Abs(a.n), b.d)
      g2 == Gcd(Abs(b.n), a.d)
  IN [n |-> (a.n \div g1) * (b.n \div g2), d |-> (a.d \div g2) * (b.d \div g1)]

\* a / b for b > 0
QDiv(a, b) == QMul(a, [n |-> b.d, d |-> b.n])

QAdd(a, b) ==
  LET g == Gcd(a.d, b.d)
  IN Q(a.n * (b.d \div g) + b.n * (a.d \div g), (a.d \div g) * b.d)

QSub(a, b) == QAdd(a, [n |-> -b.n, d |-> b.d])

QLess(a, b) == a.n * b.d < b.n * a.d
QLeq(a, b) == a.n * b.d <= b.n * a.d

\* Math.round: the nearest integer, halves upwards
QRound(a) == (2 * a.n + a.d) \div (2 * a.d)

(* --------------------------- slot rasterizer --------------------------- *)

\* (slotAspect > 1 && imgAspect < 1) || (slotAspect < 1 && imgAspect > 1)
shouldRotate(slotAspect, imgElement) ==
  LET imgAspect == Q(imgElement.width, imgElement.height)
  IN \/ QLess(QInt(1), slotAspect) /\ QLess(imgAspect, QInt(1))
     \/ QLess(slotAspect, QInt(1)) /\ QLess(QInt(1), imgAspect)

\* generatePDF: the canvas of a placed item, Math.round(cm * 118.11) pixels
pdfCanvas(item) ==
  [ width  |-> QRound(QMul(QInt(item.w), Q(11811, 12000000))),
    height |-> QRound(QMul(QInt(item.h), Q(11811, 12000000))) ]

\* generatePDF: the rectangle left for the image inside the border
\* (borderSize = canvas.width * 0.04, bottomExtra = canvas.height * 0.12)
pdfDrawRect(canvas, s) ==
  IF s.hasBorder \/ s.isPolaroid
  THEN LET borderSize == Q(canvas.width, 25)
           bottomExtra == IF s.isPolaroid THEN Q(3 * canvas.height, 25) ELSE QInt(0)
       IN [ x |-> borderSize, y |-> borderSize,
            w |-> QSub(QInt(canvas.width), QMul(borderSize, QInt(2))),
            h |-> QSub(QSub(QInt(canvas.height), QMul(borderSize, QInt(2))),
                       bottomExtra) ]
  ELSE [ x |-> QInt(0), y |-> QInt(0),
         w |-> QInt(canvas.width), h |-> QInt(canvas.height) ]

\* Math.round of a double computed from the exact value a.  Off a half the
\* double is on the same side of the half as a.  When a is a half (a custom
\* size in pixels ending in .5) the rounding errors of (px * 2.54 / 300) /
\* 2.54 * 300 decide between the two neighbours: 9.5 gives 9, 10.5 gives 11.
roundedDouble(a) ==
  IF a.d = 2 THEN { (a.n - 1) \div 2, (a.n + 1) \div 2 } ELSE { QRound(a) }

\* saveToPNG: pxW and pxH = Math.round((cm / 2.54) * 300), computed once for
\* the run; equal sides give equal pixels
pngPixels(s) ==
  LET targetSize == getTargetSize(s)
  IN { px \in { [pxW |-> a, pxH |-> b] :
                   a \in roundedDouble(Q(targetSize.width, 1016)),
                   b \in roundedDouble(Q(targetSize.height, 1016)) } :
         targetSize.width = targetSize.height => px.pxW = px.pxH }

\* faulty variant of pngCanvas: the canvas is never turned
pngCanvasNoSwap(img, px, s) ==
  [width |-> px.pxW, height |-> px.pxH]

\* saveToPNG: the canvas of one copy, finalW x finalH pixels
pngCanvas(img, px, s) ==
  LET pxW == px.pxW
      pxH == px.pxH
      isImgLandscape == img.width > img.height
      same == [width |-> pxW, height |-> pxH]
      swap == [width |-> pxH, height |-> pxW]
  IN IF s.orientation = "landscape" \/ (s.orientation = "auto" /\ isImgLandscape)
     THEN (IF pxW < pxH THEN swap ELSE same)
     ELSE IF s.orientation = "portrait" \/ (s.orientation = "auto" /\ ~isImgLandscape)
          THEN (IF pxW > pxH THEN swap ELSE same)
          ELSE same

\* saveToPNG: the rectangle left for the image inside the border, rounded
\* (borderSize = Math.round(finalW * 0.04), bottomExtra = Math.round(finalH * 0.12))
pngDrawRect(canvas, s) ==
  IF s.hasBorder \/ s.isPolaroid
  THEN LET borderSize == QRound(Q(canvas.width, 25))
           bottomExtra == IF s.isPolaroid THEN QRound(Q(3 * canvas.height, 25)) ELSE 0
       IN [ x |-> QInt(borderSize), y |-> QInt(borderSize),
            w |-> QInt(canvas.width - borderSize * 2),
            h |-> QInt(canvas.height - borderSize * 2 - bottomExtra) ]
  ELSE [ x |-> QInt(0), y |-> QInt(0),
         w |-> QInt(canvas.width), h |-> QInt(canvas.height) ]

\* faulty variant of drawImageCall: when the sides are cropped, the crop
\* width is taken from the image width, not from the image height
drawImageCallWidthCrop(rect, rotated, imgElement, s) ==
  LET drawW == IF rotated THEN rect.h ELSE rect.w
      drawH == IF rotated THEN rect.w ELSE rect.h
      currentImgAspect == IF rotated THEN Q(imgElement.height, imgElement.width)
                          ELSE Q(imgElement.width, imgElement.height)
      targetAspect == QDiv(drawW, drawH)
      width == QInt(imgElement.width)
      height == QInt(imgElement.height)
  IN IF s.fitMode = "cover"
     THEN IF QLess(targetAspect, currentImgAspect)
          THEN LET sourceW == QMul(width, targetAspect)
               IN [ cropped |-> TRUE, rotated |-> rotated,
                    sourceX |-> QMul(QSub(width, sourceW), Q(1, 2)),
                    sourceY |-> QInt(0),
                    sourceW |-> sourceW, sourceH |-> height,
                    x |-> rect.x, y |-> rect.y, w |-> drawW, h |-> drawH ]
          ELSE LET sourceH == QDiv(width, targetAspect)
               IN [ cropped |-> TRUE, rotated |-> rotated,
                    sourceX |-> QInt(0),
                    sourceY |-> QMul(QSub(height, sourceH), Q(35, 100)),
                    sourceW |-> width, sourceH |-> sourceH,
                    x |-> rect.x, y |-> rect.y, w |-> drawW, h |-> drawH ]
     ELSE IF QLess(targetAspect, currentImgAspect)
          THEN LET finalDrawH == QDiv(drawW, currentImgAspect)
               IN [ cropped |-> FALSE, rotated |-> rotated,
                    x |-> rect.x,
                    y |-> QAdd(rect.y, QMul(QSub(drawH, finalDrawH), Q(1, 2))),
                    w |-> drawW, h |-> finalDrawH ]
          ELSE LET finalDrawW == QMul(drawH, currentImgAspect)
               IN [ cropped |-> FALSE, rotated |-> rotated,
                    x |-> QAdd(rect.x, QMul(QSub(drawW, finalDrawW), Q(1, 2))),
                    y |-> rect.y,
                    w |-> finalDrawW, h |-> drawH ]

\* The arguments of ctx.drawImage for an image element in the rectangle
\* rect, in cover or contain mode, with the canvas rotated or not (the same
\* lines in generatePDF and saveToPNG).  rotated is the canvas transform in
\* force: a quarter turn about the centre of rect.
drawImageCall(rect, rotated, imgElement, s) ==
  LET drawW == IF rotated THEN rect.h ELSE rect.w
      drawH == IF rotated THEN rect.w ELSE rect.h
      currentImgAspect == IF rotated THEN Q(imgElement.height, imgElement.width)
                          ELSE Q(imgElement.width, imgElement.height)
      targetAspect == QDiv(drawW, drawH)
      width == QInt(imgElement.width)
      height == QInt(imgElement.height)
  IN IF s.fitMode = "cover"
     THEN IF QLess(targetAspect, currentImgAspect)
          THEN LET sourceW == QMul(height, targetAspect)
               IN [ cropped |-> TRUE, rotated |-> rotated,
                    sourceX |-> QMul(QSub(width, sourceW), Q(1, 2)),
                    sourceY |-> QInt(0),
                    sourceW |-> sourceW, sourceH |-> height,
                    x |-> rect.x, y |-> rect.y, w |-> drawW, h |-> drawH ]
          ELSE LET sourceH == QDiv(width, targetAspect)
               IN [ cropped |-> TRUE, rotated |-> rotated,
                    sourceX |-> QInt(0),
                    sourceY |-> QMul(QSub(height, sourceH), Q(35, 100)),
                    sourceW |-> width, sourceH |-> sourceH,
                    x |-> rect.x, y |-> rect.y, w |-> drawW, h |-> drawH ]
     ELSE IF QLess(targetAspect, currentImgAspect)
          THEN LET finalDrawH == QDiv(drawW, currentImgAspect)
               IN [ cropped |-> FALSE, rotated |-> rotated,
                    x |-> rect.x,
                    y |-> QAdd(rect.y, QMul(QSub(drawH, finalDrawH), Q(1, 2))),
                    w |-> drawW, h |-> finalDrawH ]
          ELSE LET finalDrawW == QMul(drawH, currentImgAspect)
               IN [ cropped |-> FALSE, rotated |-> rotated,
                    x |-> QAdd(rect.x, QMul(QSub(drawW, finalDrawW), Q(1, 2))),
                    y |-> rect.y,
                    w |-> finalDrawW, h |-> drawH ]

\* The part of the canvas a drawImage call paints.  Without rotation it is
\* the destination rectangle of the call.  With the transform translate(c),
\* rotate(PI / 2), translate(-c), c the centre of rect, a point (x, y) goes to
\* (cx - (y - cy), cy + (x - cx)).
paintedRect(call, rect) ==
  IF ~call.rotated
  THEN [x |-> call.x, y |-> call.y, w |-> call.w, h |-> call.h]
  ELSE LET cx == QAdd(rect.x, QMul(rect.w, Q(1, 2)))
           cy == QAdd(rect.y, QMul(rect.h, Q(1, 2)))
       IN [ x |-> QSub(QAdd(cx, cy), QAdd(call.y, call.h)),
            y |-> QAdd(QSub(cy, cx), call.x),
            w |-> call.h, h |-> call.w ]

\* generatePDF: what is drawn for a placed item once its image element loaded
pdfDraw(item, imgElement, s) ==
  LET canvas == pdfCanvas(item)
      rect == pdfDrawRect(canvas, s)
      rotated == shouldRotate(Q(item.w, item.h), imgElement)
  IN [ canvas |-> canvas, rect |-> rect, imgElement |-> imgElement,
       call |-> drawImageCall(rect, rotated, imgElement, s) ]

\* saveToPNG: what is drawn for one copy once its image element loaded
pngDraw(img, px, imgElement, s) ==
  LET canvas == pngCanvas(img, px, s)
      rect == pngDrawRect(canvas, s)
      rotated == shouldRotate(Q(canvas.width, canvas.height), imgElement)
  IN [ canvas |-> canvas, rect |-> rect, imgElement |-> imgElement,
       call |-> drawImageCall(rect, rotated, imgElement, s) ]

(* ------------------------------ actions -------------------------------- *)

RECURSIVE totalCopies(_)
totalCopies(imgs) ==
  IF imgs = << >> THEN 0 ELSE Head(imgs).copies + totalCopies(Tail(imgs))

\* App.tsx:30-41
initialSettings ==
  [ sizeId |-> "10x15", customWidth |-> 40, customHeight |-> 60,
    customUnit |-> "cm", hasBorder |-> FALSE, isPolaroid |-> FALSE,
    orientation |-> "auto", spacing |-> Mm(2), margin |-> Mm(3),
    fitMode |-> "cover" ]

\* An export that is not running.  A running export holds its position pc
\* ("loading": awaiting the onload of the image element of the first of
\* items; "failed": that element failed to load; "waiting": in the delay
\* after a download), the captured items still to do, where: for each image
\* of the captured list its present position in images, 0 once removed (its
\* object URL revoked), and drawn: what the last drawing made, if any, was
\* made of (the item or copy, the loaded image element, the settings).
\* settings holds the settings the export captured when it was started (the
\* initial settings when none is running).
idleRun ==
  [ pc |-> "idle", items |-> << >>, where |-> << >>, drawn |-> << >>,
    settings |-> initialSettings ]

\* A PNG export holds in px the pixel size it computed when it was started
idlePngRun ==
  [ pc |-> "idle", items |-> << >>, where |-> << >>, drawn |-> << >>,
    settings |-> initialSettings, px |-> [pxW |-> 0, pxH |-> 0] ]

\* App.tsx:29-43
Init ==
  /\ images = << >>
  /\ settings = initialSettings
  /\ isGenerating = FALSE
  /\ isSavingImages = FALSE
  /\ pdfRun = idleRun
  /\ pngRun = idlePngRun

\* n files chosen in the file dialog: each becomes an image with one copy and
\* the size 0 x 0, appended in the order of the files
handleFileUpload ==
  /\ \E n \in 1..(MaxItems - totalCopies(images)) :
        images' = images \o [ i \in 1..n |-> [copies |-> 1, width |-> 0, height |-> 0] ]
  /\ UNCHANGED <<settings, exportVars>>

\* i.onload of handleFileUpload: the decoded size of the image at position k
\* arrives.  It fires once per image; decoded sizes are positive, so an image
\* still at 0 x 0 is one whose onload has not fired.
imageOnload ==
  /\ \E k \in DOMAIN images, d \in DecodedSizes :
        /\ images[k].width = 0 /\ images[k].height = 0
        /\ images' = [ p \in DOMAIN images |->
                         IF p = k THEN [images[p] EXCEPT !.width = d[1], !.height = d[2]]
                         ELSE images[p] ]
  /\ UNCHANGED <<settings, exportVars>>

\* prev.filter(i => i.id !== id), id the id of the image at position k
withoutImage(imgs, k) ==
  [ p \in 1..(Len(imgs) - 1) |-> IF p < k THEN imgs[p] ELSE imgs[p + 1] ]

\* URL.revokeObjectURL on the removed image, as a running export sees it
revoked(where, k) ==
  [ r \in DOMAIN where |->
      IF where[r] = k THEN 0 ELSE IF where[r] > k THEN where[r] - 1 ELSE where[r] ]

removeImage ==
  /\ \E k \in DOMAIN images :
        /\ images' = withoutImage(images, k)
        /\ pdfRun' = [pdfRun EXCEPT !.where = revoked(@, k)]
        /\ pngRun' = [pngRun EXCEPT !.where = revoked(@, k)]
  /\ UNCHANGED <<settings, isGenerating, isSavingImages>>

\* faulty variant of withCopies: the new copy-count is not held at 1 or above
withCopiesNoFloor(imgs, k, delta) ==
  [ p \in DOMAIN imgs |->
      IF p = k THEN [imgs[p] EXCEPT !.copies = imgs[p].copies + delta]
      ELSE imgs[p] ]

\* prev.map(img => img.id === id ? {...img, copies: max(1, copies + delta)} : img)
withCopies(imgs, k, delta) ==
  [ p \in DOMAIN imgs |->
      IF p = k THEN [imgs[p] EXCEPT !.copies = Max(1, imgs[p].copies + delta)]
      ELSE imgs[p] ]

updateCopies ==
  /\ \E k \in DOMAIN images, delta \in {-1, 1} :
        /\ delta = 1 => totalCopies(images) < MaxItems
        /\ images' = withCopies(images, k, delta)
  /\ UNCHANGED <<settings, exportVars>>

setOrientation ==
  /\ \E opt \in Orientations : settings' = [settings EXCEPT !.orientation = opt]
  /\ UNCHANGED <<images, exportVars>>

setSizeId ==
  /\ \E id \in SizeIds : settings' = [settings EXCEPT !.sizeId = id]
  /\ UNCHANGED <<images, exportVars>>

\* the custom inputs are rendered only while sizeId is 'custom'
setCustomWidth ==
  /\ settings.sizeId = "custom"
  /\ \E v \in CustomVals : settings' = [settings EXCEPT !.customWidth = v]
  /\ UNCHANGED <<images, exportVars>>

setCustomHeight ==
  /\ settings.sizeId = "custom"
  /\ \E v \in CustomVals : settings' = [settings EXCEPT !.customHeight = v]
  /\ UNCHANGED <<images, exportVars>>

setCustomUnit ==
  /\ settings.sizeId = "custom"
  /\ \E u \in CustomUnits : settings' = [settings EXCEPT !.customUnit = u]
  /\ UNCHANGED <<images, exportVars>>

setMargin ==
  /\ \E v \in MarginVals : settings' = [settings EXCEPT !.margin = v]
  /\ UNCHANGED <<images, exportVars>>

setSpacing ==
  /\ \E v \in SpacingVals : settings' = [settings EXCEPT !.spacing = v]
  /\ UNCHANGED <<images, exportVars>>

\* the border toggle
toggleHasBorder ==
  /\ settings' = [settings EXCEPT !.hasBorder = ~settings.hasBorder]
  /\ UNCHANGED <<images, exportVars>>

\* the polaroid toggle
toggleIsPolaroid ==
  /\ settings' = [settings EXCEPT !.isPolaroid = ~settings.isPolaroid]
  /\ UNCHANGED <<images, exportVars>>

FitModes == {"cover", "contain"}

\* the two fit buttons
setFitMode ==
  /\ \E f \in FitModes : settings' = [settings EXCEPT !.fitMode = f]
  /\ UNCHANGED <<images, exportVars>>

(* ------------------------------- exports ------------------------------- *)

\* if (!ctx) continue: canvas.getContext('2d') may return null, and the
\* item is then skipped before anything is awaited.  What is left of the
\* items when the loop reaches its next await, or its end: any suffix.
afterSkipped(items) ==
  { SubSeq(items, n + 1, Len(items)) : n \in 0..Len(items) }

\* new Image() with src = previewUrl: the results the load of the image
\* element of img can have.  A revoked object URL fails; a file whose size
\* never arrived may be one the browser cannot decode; a decoded file loads.
\* Only onload is handled, so a failed load calls nothing.
loadResults(img, where) ==
  IF where[img.ref] = 0 THEN {"failed"}
  ELSE IF img.width = 0 THEN {"loading", "failed"}
  ELSE {"loading"}

\* the size of the image element once loaded
loadedSizes(img) ==
  IF img.width = 0 THEN DecodedSizes ELSE { <<img.width, img.height>> }

\* generatePDF up to its first await: the button is enabled when there are
\* images and no PDF is being generated; pages and settings are captured
\* here.  When every item is skipped the PDF is saved and isGenerating reset
\* within the click.
generatePDF ==
  /\ images # << >>
  /\ ~isGenerating
  /\ LET where == [ k \in DOMAIN images |-> k ]
     IN \E items \in afterSkipped(Flatten(pages)) :
          IF items = << >>
          THEN /\ pdfRun' = idleRun
               /\ isGenerating' = FALSE
          ELSE /\ \E r \in loadResults(Head(items).img, where) :
                     pdfRun' = [ pc |-> r, items |-> items, where |-> where,
                                 drawn |-> << >>, settings |-> settings ]
               /\ isGenerating' = TRUE
  /\ UNCHANGED <<images, settings, isSavingImages, pngRun>>

\* img.onload of generatePDF: the item is drawn, with the captured settings,
\* and added to the PDF, then the next item that is not skipped starts
\* loading, or the PDF is saved and isGenerating reset
pdfOnload ==
  /\ pdfRun.pc = "loading"
  /\ LET item == Head(pdfRun.items)
     IN \E d \in loadedSizes(item.img), rest \in afterSkipped(Tail(pdfRun.items)) :
          LET drawn == << [ item |-> item, settings |-> pdfRun.settings,
                            imgElement |-> [width |-> d[1], height |-> d[2]] ] >>
          IN IF rest = << >>
             THEN /\ pdfRun' = [idleRun EXCEPT !.drawn = drawn]
                  /\ isGenerating' = FALSE
             ELSE /\ \E r \in loadResults(Head(rest).img, pdfRun.where) :
                        pdfRun' = [pdfRun EXCEPT !.pc = r, !.items = rest, !.drawn = drawn]
                  /\ UNCHANGED isGenerating
  /\ UNCHANGED <<images, settings, isSavingImages, pngRun>>

\* saveToPNG up to its first await: images and settings are captured here,
\* and pxW, pxH computed.  When every copy is skipped isSavingImages is reset
\* within the click.
saveToPNG ==
  /\ images # << >>
  /\ ~isSavingImages
  /\ LET where == [ k \in DOMAIN images |-> k ]
     IN \E items \in afterSkipped(allItemsToPrint(images)) :
          IF items = << >>
          THEN /\ pngRun' = idlePngRun
               /\ isSavingImages' = FALSE
          ELSE /\ \E r \in loadResults(Head(items), where), px \in pngPixels(settings) :
                     pngRun' = [ pc |-> r, items |-> items, where |-> where,
                                 drawn |-> << >>, settings |-> settings, px |-> px ]
               /\ isSavingImages' = TRUE
  /\ UNCHANGED <<images, settings, isGenerating, pdfRun>>

\* i.onload of saveToPNG: the copy is drawn, with the captured settings, and
\* downloaded, then the delay of 200 ms starts
pngOnload ==
  /\ pngRun.pc = "loading"
  /\ LET img == Head(pngRun.items)
     IN \E d \in loadedSizes(img) :
          pngRun' = [pngRun EXCEPT
                       !.pc = "waiting",
                       !.drawn = << [ img |-> img, px |-> pngRun.px,
                                      settings |-> pngRun.settings,
                                      imgElement |-> [width |-> d[1], height |-> d[2]] ] >>]
  /\ UNCHANGED <<images, settings, isGenerating, isSavingImages, pdfRun>>

\* the timer of saveToPNG fires: the next copy that is not skipped starts
\* loading, or isSavingImages is reset
pngTimer ==
  /\ pngRun.pc = "waiting"
  /\ \E rest \in afterSkipped(Tail(pngRun.items)) :
        IF rest = << >>
        THEN /\ pngRun' = [idlePngRun EXCEPT !.drawn = pngRun.drawn]
             /\ isSavingImages' = FALSE
        ELSE /\ \E r \in loadResults(Head(rest), pngRun.where) :
                   pngRun' = [pngRun EXCEPT !.pc = r, !.items = rest]
             /\ UNCHANGED isSavingImages
  /\ UNCHANGED <<images, settings, isGenerating, pdfRun>>

(* -------------------------------- App ---------------------------------- *)

\* every handler and callback of App
Next ==
  \/ handleFileUpload
  \/ imageOnload
  \/ removeImage
  \/ updateCopies
  \/ setOrientation
  \/ setSizeId
  \/ setCustomWidth
  \/ setCustomHeight
  \/ setCustomUnit
  \/ setMargin
  \/ setSpacing
  \/ toggleHasBorder
  \/ toggleIsPolaroid
  \/ setFitMode
  \/ generatePDF
  \/ pdfOnload
  \/ saveToPNG
  \/ pngOnload
  \/ pngTimer

Spec == Init /\ [][Next]_vars

(* ------------------------------ sessions ------------------------------- *)

\* A session that edits the image list and the settings calculateLayout
\* reads, and exports nothing
NextLayout ==
  \/ handleFileUpload
  \/ imageOnload
  \/ removeImage
  \/ updateCopies
  \/ setOrientation
  \/ setSizeId
  \/ setCustomWidth
  \/ setCustomHeight
  \/ setCustomUnit
  \/ setMargin
  \/ setSpacing

SpecLayout == Init /\ [][NextLayout]_vars

MaxExportImages == 2
ExportCustomVals == {40, 41, 60}

\* Custom sizes of the PNG sessions, in quarters: with 10.25 (rounds to 10),
\* 10.5 (a half: 10 or 11) and 10.75 (rounds to 11) pixels, sides less than
\* a pixel apart round to the same and to different whole pixels
PngCustomVals == {40, 41, 42, 43, 60}

\* The size choices of an export: a catalogue size, or a custom size with
\* sides in vals
ExportSizes(vals) ==
  { [initialSettings EXCEPT !.sizeId = id] : id \in SizeIds \ {"custom"} }
  \cup { [initialSettings EXCEPT !.sizeId = "custom", !.customWidth = cw,
                                 !.customHeight = ch, !.customUnit = u] :
            cw \in vals, ch \in vals, u \in CustomUnits }

\* The settings an export can find: any size, orientation, border style and
\* fit mode the controls can set
ExportSettings(vals) ==
  { [z EXCEPT !.orientation = o, !.hasBorder = b, !.isPolaroid = p, !.fitMode = f] :
      z \in ExportSizes(vals), o \in Orientations, b \in BOOLEAN, p \in BOOLEAN,
      f \in FitModes }

\* Uploaded images: decoded, or still at 0 x 0
ExportImages ==
  UNION { [ 1..n -> { [copies |-> 1, width |-> d[1], height |-> d[2]] :
                        d \in DecodedSizes \cup { <<0, 0>> } } ] :
          n \in 1..MaxExportImages }

InitExport ==
  /\ images \in ExportImages
  /\ settings \in ExportSettings(ExportCustomVals)
  /\ isGenerating = FALSE
  /\ isSavingImages = FALSE
  /\ pdfRun = idleRun
  /\ pngRun = idlePngRun

InitPng ==
  /\ images \in ExportImages
  /\ settings \in ExportSettings(PngCustomVals)
  /\ isGenerating = FALSE
  /\ isSavingImages = FALSE
  /\ pdfRun = idleRun
  /\ pngRun = idlePngRun

\* A session that exports PDFs, removes images and changes the fit mode
NextPdf ==
  \/ generatePDF
  \/ pdfOnload
  \/ removeImage
  \/ setFitMode

SpecPdf == InitExport /\ [][NextPdf]_vars

\* A session that saves PNGs and removes images
NextPng ==
  \/ saveToPNG
  \/ pngOnload
  \/ pngTimer
  \/ removeImage

SpecPng == InitPng /\ [][NextPng]_vars

\* A session from the start of the app: images are uploaded, decoded and
\* removed, and PDFs are exported
NextPdfSession ==
  \/ handleFileUpload
  \/ imageOnload
  \/ removeImage
  \/ generatePDF
  \/ pdfOnload

\* The browser runs a callback that is ready: the onload of an image element
\* that loaded is called
FairSpecPdf == Init /\ [][NextPdfSession]_vars /\ WF_vars(pdfOnload)

(* ------------------------- derived quantities --------------------------- *)

\* the natural slot size of the current settings
natural == getTargetSize(settings)

\* the placed items of all pages, in page order and within-page order
placed == Flatten(pages)

\* the copies of the images before position k
copiesBefore(imgs, k) == totalCopies(SubSeq(imgs, 1, k - 1))

\* two placed items share area
overlap(a, b) ==
  /\ a.x < b.x + b.w /\ b.x < a.x + a.w
  /\ a.y < b.y + b.h /\ b.y < a.y + a.h

\* the rectangle of a placed item lies within the margins, up to the tolerance
withinMargins(it, s) ==
  /\ it.x >= s.margin - EPSILON
  /\ it.x + it.w <= A4_WIDTH_CM - s.margin + EPSILON
  /\ it.y >= s.margin - EPSILON
  /\ it.y + it.h <= A4_HEIGHT_CM - s.margin + EPSILON

\* a slot no larger than the printable area, up to the tolerance
slotFits(it, s) ==
  /\ it.w <= A4_WIDTH_CM - 2 * s.margin + EPSILON
  /\ it.h <= A4_HEIGHT_CM - 2 * s.margin + EPSILON

(* -------------------------------- C1 ------------------------------------ *)

\* C1: every copy is placed exactly once: the pages hold as many items as
\* there are copies, and each image is the source of exactly `copies` items.
C1_EachCopyPlacedOnce ==
  LET pl == placed
  IN /\ Len(pl) = totalCopies(images)
     /\ \A k \in DOMAIN images :
           Cardinality({ i \in DOMAIN pl : pl[i].img.ref = k }) = images[k].copies

\* two images, the first with two copies, slots wider than the printable
\* width, on three pages
C1_Witness ==
  /\ Len(images) = 2 /\ images[1].copies = 2
  /\ natural.width > A4_WIDTH_CM - 2 * settings.margin + EPSILON
  /\ Len(pages) >= 3

(* -------------------------------- C2 ------------------------------------ *)

\* C2: no two placed items of one page overlap, after the centering pass.
C2_NoOverlap ==
  LET pg == pages
  IN \A p \in DOMAIN pg : \A i, j \in DOMAIN pg[p] :
        i < j => ~overlap(pg[p][i], pg[p][j])

\* a page whose first row mixes a portrait and a landscape slot and is
\* followed by a second row
C2_Witness ==
  LET pg == pages
  IN \E p \in DOMAIN pg : \E i, j, k \in DOMAIN pg[p] :
        /\ pg[p][i].y = pg[p][j].y
        /\ pg[p][i].w < pg[p][i].h /\ pg[p][j].w > pg[p][j].h
        /\ pg[p][k].y > pg[p][i].y

(* -------------------------------- C3 ------------------------------------ *)

\* C3 as stated: every placed item lies within the margins (up to the
\* tolerance), whatever the slot size.
C3_AllWithinMargins ==
  LET pl == placed
  IN \A i \in DOMAIN pl : withinMargins(pl[i], settings)

\* C3 amended: when every placed item's effective slot is no larger than the
\* printable area, every placed item lies within the margins (up to the
\* tolerance).
C3_WithinMarginsWhenSlotsFit ==
  LET pl == placed
  IN (\A i \in DOMAIN pl : slotFits(pl[i], settings))
        => \A i \in DOMAIN pl : withinMargins(pl[i], settings)

\* three fitting items on two pages
C3_Witness ==
  LET pl == placed
  IN /\ Len(pl) = 3
     /\ \A i \in DOMAIN pl : slotFits(pl[i], settings)
     /\ Len(pages) = 2

(* -------------------------------- C4 ------------------------------------ *)

\* C4: the placed items, read page by page, are the copies in input order:
\* the c-th copy of the k-th image is the item after all copies of the
\* images before it.
C4_InputOrder ==
  LET pl == placed
  IN /\ Len(pl) = totalCopies(images)
     /\ \A k \in DOMAIN images : \A c \in 1..images[k].copies :
           pl[copiesBefore(images, k) + c].img = imageObject(images, k)

\* two images, the first with two copies, two items on the first page and
\* one on the second
C4_Witness ==
  /\ Len(images) = 2 /\ images[1].copies = 2
  /\ Len(pages) = 2 /\ Len(pages[1]) = 2 /\ Len(pages[2]) = 1

(* -------------------------------- C5 ------------------------------------ *)

\* C5: under 'landscape' every item has w >= h, under 'portrait' h >= w; the
\* slot is the natural slot swapped, and marked rotated, exactly when the
\* natural slot violates the policy.
C5_ForcedOrientation ==
  LET pl == placed
      nat == natural
      swapped(it) == it.w = nat.height /\ it.h = nat.width /\ it.isRotated
      kept(it) == it.w = nat.width /\ it.h = nat.height /\ ~it.isRotated
  IN /\ settings.orientation = "landscape" =>
          \A i \in DOMAIN pl :
             /\ pl[i].w >= pl[i].h
             /\ IF nat.width < nat.height THEN swapped(pl[i]) ELSE kept(pl[i])
     /\ settings.orientation = "portrait" =>
          \A i \in DOMAIN pl :
             /\ pl[i].h >= pl[i].w
             /\ IF nat.width > nat.height THEN swapped(pl[i]) ELSE kept(pl[i])

\* 'portrait' with the natural slot 15 x 10 cm: the item is 10 x 15, rotated
C5_Witness ==
  LET pl == placed
  IN /\ settings.orientation = "portrait"
     /\ natural = [width |-> Cm(15), height |-> Cm(10)]
     /\ Len(pl) >= 1
     /\ pl[1].w = Cm(10) /\ pl[1].h = Cm(15) /\ pl[1].isRotated

(* -------------------------------- C6 ------------------------------------ *)

\* C6: under 'auto' with a non-square natural slot, an item's slot is
\* landscape exactly when its image is, and it is the natural slot swapped,
\* and marked rotated, exactly when the image's landscape-ness differs from
\* the natural slot's.
C6_AutoFollowsImage ==
  LET pl == placed
      nat == natural
  IN (settings.orientation = "auto" /\ nat.width # nat.height) =>
        \A i \in DOMAIN pl :
           LET it == pl[i]
               differs == (it.img.width > it.img.height) # (nat.width > nat.height)
           IN /\ (it.w > it.h) <=> (it.img.width > it.img.height)
              /\ it.isRotated <=> differs
              /\ IF differs THEN it.w = nat.height /\ it.h = nat.width
                 ELSE it.w = nat.width /\ it.h = nat.height

\* 'auto', a non-square slot, a landscape and a portrait image in one
\* layout: one item rotated, the other not
C6_Witness ==
  LET pl == placed
  IN /\ settings.orientation = "auto"
     /\ natural.width # natural.height
     /\ \E i, j \in DOMAIN pl :
           /\ pl[i].img.width > pl[i].img.height /\ pl[i].isRotated
           /\ pl[j].img.width > 0 /\ pl[j].img.width < pl[j].img.height
           /\ ~pl[j].isRotated

(* -------------------------------- C7 ------------------------------------ *)

\* C7: under 'auto' an image of unknown size (0 x 0) is placed in the natural
\* slot, unswapped and not marked rotated, whatever the natural slot.
C7_UnknownSizeKeepsNaturalSlot ==
  LET pl == placed
      nat == natural
  IN settings.orientation = "auto" =>
        \A i \in DOMAIN pl :
           (pl[i].img.width = 0 /\ pl[i].img.height = 0) =>
              /\ pl[i].w = nat.width /\ pl[i].h = nat.height
              /\ ~pl[i].isRotated

(* -------------------------------- C8 ------------------------------------ *)

\* C8: an item is marked rotated exactly when its slot (w, h) differs from
\* the natural (width, height).
C8_RotatedIffSlotDiffers ==
  LET pl == placed
      nat == natural
  IN \A i \in DOMAIN pl :
        pl[i].isRotated <=> (pl[i].w # nat.width \/ pl[i].h # nat.height)

(* -------------------------------- C9 ------------------------------------ *)

\* C9: on every page with content, min x + max (x + w) is the page width
\* after the centering pass, and the pass moved all items of the page by one
\* offset in x and changed nothing else.
C9_CenteredByOneShift ==
  LET pg == pages
      packed == packedPages(images, settings)
  IN /\ Len(pg) = Len(packed)
     /\ \A p \in DOMAIN pg :
           /\ Len(pg[p]) = Len(packed[p])
           /\ Len(pg[p]) > 0 =>
                /\ SeqMin([ i \in DOMAIN pg[p] |-> pg[p][i].x ])
                     + SeqMax([ i \in DOMAIN pg[p] |-> pg[p][i].x + pg[p][i].w ])
                     = A4_WIDTH_CM
                /\ LET off == pg[p][1].x - packed[p][1].x
                   IN \A i \in DOMAIN pg[p] :
                         pg[p][i] = [packed[p][i] EXCEPT !.x = packed[p][i].x + off]

\* a page of two items that the pass moved
C9_Witness ==
  LET pg == pages
      packed == packedPages(images, settings)
  IN \E p \in DOMAIN pg :
        /\ Len(pg[p]) = 2
        /\ pg[p][1].x # packed[p][1].x
        /\ pg[p][2].x # packed[p][2].x

(* -------------------------------- C10 ----------------------------------- *)

\* C10: every page of the layout holds at least one placed item.
C10_NoEmptyPage ==
  LET pg == pages
  IN \A p \in DOMAIN pg : Len(pg[p]) >= 1

(* -------------------------------- C11 ----------------------------------- *)

\* the settings App starts with, and three images of unknown size with one
\* copy each
scenario1 ==
  /\ settings.sizeId = "10x15" /\ settings.orientation = "auto"
  /\ settings.margin = Mm(3) /\ settings.spacing = Mm(2)
  /\ images = [ k \in 1..3 |-> [copies |-> 1, width |-> 0, height |-> 0] ]

\* C11 as stated: in scenario 1 all three items are on one page.
C11_ThreeOnOnePage ==
  scenario1 => (Len(pages) = 1 /\ Len(pages[1]) = 3)

\* C11 amended: in scenario 1 the first two items share the one row of the
\* first page and the third item is alone on a second page.
C11_TwoPlusOne ==
  LET pg == pages
  IN scenario1 =>
        /\ Len(pg) = 2 /\ Len(pg[1]) = 2 /\ Len(pg[2]) = 1
        /\ pg[1][1].y = settings.margin /\ pg[1][2].y = settings.margin
        /\ pg[1][2].x = pg[1][1].x + Cm(10) + settings.spacing
        /\ pg[2][1].y = settings.margin
        /\ \A p \in DOMAIN pg : \A i \in DOMAIN pg[p] :
              pg[p][i].w = Cm(10) /\ pg[p][i].h = Cm(15) /\ ~pg[p][i].isRotated

\* scenario 1 is reached and laid out
C11_Witness ==
  scenario1 /\ Len(placed) = 3

(* -------------------------------- C14 ----------------------------------- *)

\* C14: every image of the list has a copy-count that is an integer >= 1,
\* and a step of updateCopies changes the copy-count of one image, by at most
\* one, and nothing else of the list.
C14_CopiesAtLeastOne ==
  /\ [](\A k \in DOMAIN images : images[k].copies \in Nat /\ images[k].copies >= 1)
  /\ [][ updateCopies =>
           /\ Len(images') = Len(images)
           /\ \E k \in DOMAIN images :
                 /\ images'[k].copies - images[k].copies \in {-1, 0, 1}
                 /\ images'[k] = [images[k] EXCEPT !.copies = images'[k].copies]
                 /\ \A p \in DOMAIN images : p # k => images'[p] = images[p]
       ]_vars

\* two decoded images, the second raised to two copies, the first still at one
C14_Witness ==
  /\ Len(images) = 2
  /\ images[1].copies = 1 /\ images[1].width > 0
  /\ images[2].copies = 2 /\ images[2].width > 0

(* -------------------------------- C17 ----------------------------------- *)

\* C17: the first item of every page with content is at y = margin.
C17_FirstItemAtMargin ==
  LET pg == pages
  IN \A p \in DOMAIN pg : Len(pg[p]) > 0 => pg[p][1].y = settings.margin

(* ------------------------------ drawings ------------------------------- *)

\* the last drawing of the PDF export, if any
pdfDrawn ==
  [ i \in DOMAIN pdfRun.drawn |->
      pdfDraw(pdfRun.drawn[i].item, pdfRun.drawn[i].imgElement, pdfRun.drawn[i].settings) ]

\* the last drawing of the PNG export, if any
pngDrawn ==
  [ i \in DOMAIN pngRun.drawn |->
      pngDraw(pngRun.drawn[i].img, pngRun.drawn[i].px, pngRun.drawn[i].imgElement,
              pngRun.drawn[i].settings) ]

(* -------------------------------- C12 ----------------------------------- *)

\* the image element an image of the list can load as
asElement(d) == [width |-> d[1], height |-> d[2]]

coverAspectKept(call) ==
  call.cropped => QMul(call.sourceW, call.h) = QMul(call.sourceH, call.w)

\* C12: in cover mode the source crop rectangle of a drawImage call has the
\* aspect ratio of its destination rectangle, sourceW * drawH = sourceH * drawW:
\* in the drawing an export made last, and in every drawing the two exports
\* can make of the items of the present layout, for both rotation decisions.
C12_CoverCropAspect ==
  LET pl == placed
      dr == pdfDrawn
  IN /\ \A i \in DOMAIN dr : coverAspectKept(dr[i].call)
     /\ settings.fitMode = "cover" =>
          \A k \in DOMAIN pl : \A d \in loadedSizes(pl[k].img) : \A rot \in BOOLEAN :
             /\ coverAspectKept(
                  drawImageCall(pdfDrawRect(pdfCanvas(pl[k]), settings), rot,
                                asElement(d), settings))
             /\ \A px \in pngPixels(settings) :
                  coverAspectKept(
                    drawImageCall(pngDrawRect(pngCanvas(pl[k].img, px, settings),
                                              settings),
                                  rot, asElement(d), settings))

\* a PDF export drew a portrait image rotated into a landscape polaroid slot,
\* cropping its sides
C12_Witness ==
  LET dr == pdfDrawn
  IN /\ dr # << >>
     /\ pdfRun.drawn[1].settings.isPolaroid
     /\ dr[1].call.cropped
     /\ dr[1].call.rotated
     /\ dr[1].call.sourceX # QInt(0)

(* -------------------------------- C13 ----------------------------------- *)

\* C13: in contain mode the rectangle passed to drawImage has the aspect
\* ratio of the image, finalDrawW * imageHeight = finalDrawH * imageWidth,
\* rotated or not.
C13_ContainKeepsAspect ==
  \A i \in DOMAIN pdfRun.drawn :
     LET dr == pdfDrawn[i]
     IN ~dr.call.cropped =>
          QMul(dr.call.w, QInt(dr.imgElement.height))
            = QMul(dr.call.h, QInt(dr.imgElement.width))

(* -------------------------------- C15 ----------------------------------- *)

\* C15: in cover mode the part of the canvas painted with the image is
\* exactly the usable rectangle, rotated or not.
C15_CoverPaintsUsableRect ==
  \A i \in DOMAIN pdfRun.drawn :
     LET dr == pdfDrawn[i]
     IN dr.call.cropped => paintedRect(dr.call, dr.rect) = dr.rect

(* -------------------------------- C16 ----------------------------------- *)

\* C16: in cover mode the source crop rectangle lies inside the image.
C16_CropInsideImage ==
  \A i \in DOMAIN pdfRun.drawn :
     LET dr == pdfDrawn[i]
         c == dr.call
     IN c.cropped =>
          /\ QLeq(QInt(0), c.sourceX)
          /\ QLeq(QInt(0), c.sourceY)
          /\ QLeq(QAdd(c.sourceX, c.sourceW), QInt(dr.imgElement.width))
          /\ QLeq(QAdd(c.sourceY, c.sourceH), QInt(dr.imgElement.height))

(* -------------------------------- C18 ----------------------------------- *)

\* C18: every run of generatePDF eventually resets isGenerating to false.
C18_ExportFinishes == isGenerating ~> ~isGenerating

(* -------------------------------- C19 ----------------------------------- *)

\* C19 as stated: the canvas saveToPNG uses for a copy is landscape,
\* portrait or square exactly when the slot of calculateLayout for that copy
\* is: finalW > finalH iff w > h, and finalW < finalH iff w < h.
C19_SameOrientation ==
  \A i \in DOMAIN pngRun.items :
     LET c == pngCanvas(pngRun.items[i], pngRun.px, pngRun.settings)
         o == orientSlot(pngRun.items[i], pngRun.settings)
     IN /\ (c.width > c.height) <=> (o.w > o.h)
        /\ (c.width < c.height) <=> (o.w < o.h)

\* one pixel at 300 DPI, as a length: 2.54 cm / 300
Pixel == Cm(254) \div 30000

\* C19: the canvas saveToPNG uses for a copy is the slot of calculateLayout
\* for that copy with each side rounded to whole pixels at 300 DPI:
\* finalW = Math.round(w in pixels), finalH = Math.round(h in pixels), and
\* equal sides give equal pixels.  So the canvas is never turned the other way
\* than the slot (finalW > finalH implies w > h, finalW < finalH implies
\* w < h), and when the sides of the slot differ by more than a pixel the
\* canvas has the orientation of the slot (w > h + 1 px implies finalW >
\* finalH, h > w + 1 px implies finalW < finalH).  Only sides at most a pixel
\* apart can give a square canvas for a slot that is not square.
C19_SlotRoundedToPixels ==
  \A i \in DOMAIN pngRun.items :
     LET c == pngCanvas(pngRun.items[i], pngRun.px, pngRun.settings)
         o == orientSlot(pngRun.items[i], pngRun.settings)
     IN /\ c.width \in roundedDouble(Q(o.w, Pixel))
        /\ c.height \in roundedDouble(Q(o.h, Pixel))
        /\ (o.w = o.h) => (c.width = c.height)
        /\ (c.width > c.height) => (o.w > o.h)
        /\ (c.width < c.height) => (o.w < o.h)
        /\ (o.w > o.h + Pixel) => (c.width > c.height)
        /\ (o.h > o.w + Pixel) => (c.width < c.height)

\* a PNG export drew a copy of the custom size 10.25 x 10.75 px, turned to
\* landscape: the sides of the slot are half a pixel apart and the canvas is
\* 11 x 10
C19_Witness ==
  LET dr == pngDrawn
  IN /\ dr # << >>
     /\ pngRun.drawn[1].settings.sizeId = "custom"
     /\ pngRun.drawn[1].settings.customUnit = "px"
     /\ pngRun.drawn[1].settings.customWidth = 41
     /\ pngRun.drawn[1].settings.customHeight = 43
     /\ pngRun.drawn[1].settings.orientation = "landscape"
     /\ dr[1].canvas = [width |-> 11, height |-> 10]

====
